---------------------------- MODULE Spec2Model ----------------------------
(***************************************************************************)
(* Model of lightningstream's merge iterators (syncer/iterators.go).       *)
(*                                                                         *)
(* Byte slices are sequences of 0..255; a nil slice and an empty slice are *)
(* both <<>> (the code only ever asks len() == 0).  A uint64 is a tuple of *)
(* four 16-bit limbs, most significant first, so that the whole 64-bit     *)
(* range, including 2^64 - 1, is representable; the big-endian codec       *)
(* splits every limb into two bytes and joins them again.                  *)
(***************************************************************************)
EXTENDS Integers, Sequences, FiniteSets

VARIABLES
    Entries,                \* TimestampedIterator.Entries
    DefaultTimestampNano,   \* TimestampedIterator.DefaultTimestampNano
    current,                \* TimestampedIterator.current
    started,                \* TimestampedIterator.started
    buf,                    \* TimestampedIterator.buf (<<>> while nil)
    op,                     \* the method called last
    oldval,                 \* its oldval argument
    key,                    \* key returned by the last Next
    val,                    \* val returned by the last Merge / Clean
    err,                    \* err returned by the last call
    calls,                  \* how often Next has been called on the iterator
    enc,                    \* arguments of the addTS call it made, if any
    dst,                    \* the destination store: key -> raw value
    pc,                     \* where the merge pass over dst stands
    seen,                   \* destination keys the pass has dealt with
    rep,                    \* the pass repeats the one before it
    snap,                   \* dst when the pass began
    cleaned,                \* keys holding a tombstone that Clean wrote
    oldCleaned,             \* the last Merge was handed such a tombstone
    replicaDst,             \* two replicas' values of one key
    replicaTodo,            \* the entries each replica has yet to merge
    replicaMerged,          \* the entries each replica has merged
    plainEntries,           \* PlainIterator.Entries
    plainCurrent,           \* PlainIterator.current
    plainStarted,           \* PlainIterator.started
    plainCalls,             \* how often Next has been called on it
    plainDst                \* the header-free store: present key -> value

itVars == <<Entries, DefaultTimestampNano, current, started, buf>>
callVars == <<op, oldval, key, val, err, enc, calls>>
syncVars == <<dst, pc, seen, rep, snap, cleaned, oldCleaned>>
replicaVars == <<replicaDst, replicaTodo, replicaMerged>>
plainVars == <<plainEntries, plainCurrent, plainStarted, plainCalls, plainDst>>
vars == <<itVars, callVars, syncVars, replicaVars, plainVars>>

---------------------------------------------------------------------------
(* Bounds of the model.                                                    *)

\* longest entry payload
MaxPayloadLen == 1
\* small timestamps 0..MaxTS are modelled next to BigTS and MaxUint64
MaxTS == 2
\* Next is called until current reaches this value
MaxCurrent == 3
\* most entries written to one key in any order
MaxWrites == 3

---------------------------------------------------------------------------
(* Values.                                                                 *)

HeaderSize == 8

Zero == <<0, 0, 0, 0>>
U64(n) == <<0, 0, 0, n>>
\* 0x0102030405060708: every byte of the header differs
BigTS == <<258, 772, 1286, 1800>>
MaxUint64 == <<65535, 65535, 65535, 65535>>

\* a < b on uint64
Less(a, b) ==
    \E i \in 1..4 : a[i] < b[i] /\ \A j \in 1..(i - 1) : a[j] = b[j]

\* PutUint64 writing the least significant byte first
PutUint64LittleEndian(ts) ==
    << ts[4] % 256, ts[4] \div 256, ts[3] % 256, ts[3] \div 256,
       ts[2] % 256, ts[2] \div 256, ts[1] % 256, ts[1] \div 256 >>

\* binary.BigEndian.PutUint64: the 8 bytes of ts, most significant first
PutUint64(ts) ==
    << ts[1] \div 256, ts[1] % 256, ts[2] \div 256, ts[2] % 256,
       ts[3] \div 256, ts[3] % 256, ts[4] \div 256, ts[4] % 256 >>

\* binary.BigEndian.Uint64 of the first 8 bytes of b
Uint64(b) ==
    << b[1] * 256 + b[2], b[3] * 256 + b[4],
       b[5] * 256 + b[6], b[7] * 256 + b[8] >>

\* bytes.Compare: -1, 0 or 1, byte-wise, a proper prefix being smaller
Compare(a, b) ==
    LET n == IF Len(a) < Len(b) THEN Len(a) ELSE Len(b)
        diff == {i \in 1..n : a[i] # b[i]}
    IN  IF diff # {}
        THEN LET i == CHOOSE d \in diff : \A e \in diff : d <= e
             IN  IF a[i] < b[i] THEN -1 ELSE 1
        ELSE IF Len(a) < Len(b) THEN -1
        ELSE IF Len(a) > Len(b) THEN 1
        ELSE 0

\* bytes.Equal
Equal(a, b) == Len(a) = Len(b) /\ \A i \in 1..Len(a) : a[i] = b[i]

ByteVals == {48, 49}

RECURSIVE SeqsUpTo(_, _)
SeqsUpTo(S, n) ==
    IF n = 0 THEN {<<>>}
    ELSE LET shorter == SeqsUpTo(S, n - 1)
         IN  shorter \cup {Append(s, x) : s \in shorter, x \in S}

Payloads == SeqsUpTo(ByteVals, MaxPayloadLen)

TSValues == {U64(n) : n \in 0..MaxTS} \cup {BigTS, MaxUint64}

Key1 == <<1>>
Key2 == <<2>>
Keys == {Key1, Key2}

\* snapshot.KV
KV(k, v, ts) == [Key |-> k, Value |-> v, TimestampNano |-> ts]

\* Entry sequences, ascending in their keys: none, every single entry for
\* the first key, and pairs whose entries come with and without a timestamp.
FirstEntries == {KV(Key1, <<48>>, U64(1)), KV(Key1, <<49>>, Zero)}
SecondEntries == {KV(Key2, <<49>>, U64(1)), KV(Key2, <<48>>, Zero)}
EntrySeqs ==
    {<<>>}
    \cup {<<KV(Key1, v, ts)>> : v \in Payloads, ts \in TSValues}
    \cup {<<e1, e2>> : e1 \in FirstEntries, e2 \in SecondEntries}

\* Destination values handed to Merge and Clean: absent, shorter than a
\* header, a bare header, header + payload.  addTS never writes a zero
\* header, so the stored timestamps are the nonzero ones.
ShortVals == {SubSeq(PutUint64(BigTS), 1, n) : n \in 1..(HeaderSize - 1)}
StoredVals == {PutUint64(ts) \o p : ts \in TSValues \ {Zero}, p \in Payloads}
OldVals == {<<>>} \cup ShortVals \cup StoredVals

\* error values
ErrNoTimestamp == "ErrNoTimestamp"
ErrTooShort == "merge: oldval in db too short"
EOF == "io.EOF"
NoErr == "nil"

NoCall == <<>>
Ret(v, e, b, a) == [val |-> v, err |-> e, buf |-> b, enc |-> a]

---------------------------------------------------------------------------
(* TimestampedIterator.                                                    *)

\* addTS that never falls back on the default timestamp
addTSNoDefault(b, dflt, entryVal, ts) ==
    LET b1 == IF Len(b) < HeaderSize
              THEN [i \in 1..HeaderSize |-> 0]
              ELSE SubSeq(b, 1, HeaderSize)
    IN  IF ts = Zero
        THEN Ret(<<>>, ErrNoTimestamp, b1, <<entryVal, ts>>)
        ELSE Ret(PutUint64(ts) \o entryVal, NoErr, PutUint64(ts) \o entryVal,
                 <<entryVal, ts>>)

\* addTS that writes the header without asking whether a timestamp is there
addTSNoCheck(b, dflt, entryVal, ts) ==
    LET ts1 == IF ts = Zero THEN dflt ELSE ts
    IN  Ret(PutUint64(ts1) \o entryVal, NoErr, PutUint64(ts1) \o entryVal,
            <<entryVal, ts>>)

\* addTS that appends to the scratch buffer without cutting it back
addTSNoTruncate(b, dflt, entryVal, ts) ==
    LET b1 == IF Len(b) < HeaderSize THEN [i \in 1..HeaderSize |-> 0] ELSE b
        ts1 == IF ts = Zero THEN dflt ELSE ts
    IN  IF ts1 = Zero
        THEN Ret(<<>>, ErrNoTimestamp, b1, <<entryVal, ts>>)
        ELSE LET hdr == PutUint64(ts1)
                 b2 == [i \in 1..Len(b1) |-> IF i <= HeaderSize THEN hdr[i] ELSE b1[i]]
                           \o entryVal
             IN  Ret(b2, NoErr, b2, <<entryVal, ts>>)

\* addTS returning the payload without its header
addTSNoHeader(b, dflt, entryVal, ts) ==
    LET b1 == IF Len(b) < HeaderSize
              THEN [i \in 1..HeaderSize |-> 0]
              ELSE SubSeq(b, 1, HeaderSize)
        ts1 == IF ts = Zero THEN dflt ELSE ts
    IN  IF ts1 = Zero
        THEN Ret(<<>>, ErrNoTimestamp, b1, <<entryVal, ts>>)
        ELSE Ret(entryVal, NoErr, PutUint64(ts1) \o entryVal, <<entryVal, ts>>)

\* addTS: the scratch buffer is cut back to the header (allocated when
\* nil), the default replaces a zero ts, and header ++ entryVal is returned.
addTS(b, dflt, entryVal, ts) ==
    LET b1 == IF Len(b) < HeaderSize
              THEN [i \in 1..HeaderSize |-> 0]
              ELSE SubSeq(b, 1, HeaderSize)
        ts1 == IF ts = Zero THEN dflt ELSE ts
        call == <<entryVal, ts>>
    IN  IF ts1 = Zero
        THEN Ret(<<>>, ErrNoTimestamp, b1, call)
        ELSE LET hdr == PutUint64(ts1)
                 b2 == [i \in 1..Len(b1) |-> IF i <= HeaderSize THEN hdr[i] ELSE b1[i]]
                           \o entryVal
             IN  Ret(b2, NoErr, b2, call)

\* the timestamp and the payload of a stored value (Merge's inline decode)
OldTS(old) == Uint64(SubSeq(old, 1, HeaderSize))
ActualOldVal(old) == SubSeq(old, HeaderSize + 1, Len(old))

\* Absent taking every value without a whole header for a missing one
AbsentOrShort(old) == Len(old) < HeaderSize

\* len(oldval) == 0: the key is not in the destination
Absent(old) == Len(old) = 0

\* len(oldval) < HeaderSize: "Should never happen"
TooShort(old) == Len(old) < HeaderSize

\* SameUntimestamped never finding the stored value the same
SameUntimestampedNever(newTS, actualOldVal, entryVal) == FALSE

\* "do not update timestamp": an entry without timestamp whose value is
\* the stored one
SameUntimestamped(newTS, actualOldVal, entryVal) ==
    newTS = Zero /\ Equal(actualOldVal, entryVal)

\* KeepNewer keeping the stored value on equal timestamps too
KeepNewerOrEqual(newTS, oldTS) == ~Less(oldTS, newTS)

\* KeepNewer with the comparison turned round
KeepNewerReversed(newTS, oldTS) == Less(oldTS, newTS)

\* "Current LMDB value has a higher timestamp, so keep that one"
KeepNewer(newTS, oldTS) == Less(newTS, oldTS)

\* KeepOnTie letting the greater value win
KeepOnTieGreater(newTS, oldTS, actualOldVal, entryVal) ==
    newTS = oldTS /\ Compare(actualOldVal, entryVal) >= 0

\* KeepOnTie never looking at the values
KeepOnTieAlways(newTS, oldTS, actualOldVal, entryVal) == newTS = oldTS

\* KeepOnTie letting the incoming value win
KeepOnTieNever(newTS, oldTS, actualOldVal, entryVal) == FALSE

\* "Same timestamp, lexicographic lower value wins"
KeepOnTie(newTS, oldTS, actualOldVal, entryVal) ==
    newTS = oldTS /\ Compare(actualOldVal, entryVal) <= 0

Merge(entries, cur, dflt, b, old) ==
    LET entry == entries[cur + 1]
        entryVal == entry.Value
    IN  IF Absent(old)
        THEN addTS(b, dflt, entryVal, entry.TimestampNano)
        ELSE IF TooShort(old)
        THEN Ret(<<>>, ErrTooShort, b, NoCall)
        ELSE LET oldTS == OldTS(old)
                 actualOldVal == ActualOldVal(old)
                 ts0 == entry.TimestampNano
             IN  IF SameUntimestamped(ts0, actualOldVal, entryVal)
                 THEN Ret(old, NoErr, b, NoCall)
                 ELSE LET newTS == IF ts0 = Zero THEN dflt ELSE ts0
                      IN  IF KeepNewer(newTS, oldTS)
                          THEN Ret(old, NoErr, b, NoCall)
                          ELSE IF KeepOnTie(newTS, oldTS, actualOldVal, entryVal)
                          THEN Ret(old, NoErr, b, NoCall)
                          ELSE addTS(b, dflt, entryVal, newTS)

\* Clean removing the key, as the plain iterator does
CleanDeletes(dflt, b, old) == Ret(<<>>, NoErr, b, NoCall)

\* Clean stamping a tombstone anew
CleanRestamps(dflt, b, old) == addTS(b, dflt, <<>>, Zero)

Clean(dflt, b, old) ==
    IF Len(old) = HeaderSize
    THEN Ret(old, NoErr, b, NoCall)
    ELSE addTS(b, dflt, <<>>, Zero)

---------------------------------------------------------------------------
(* The iterator called method by method, with any destination value.      *)

\* a new iterator, nothing called yet
NewIterator ==
    /\ current = 0
    /\ started = FALSE
    /\ buf = <<>>
    /\ op = "new"
    /\ oldval = <<>>
    /\ key = <<>>
    /\ val = <<>>
    /\ err = NoErr
    /\ enc = NoCall
    /\ calls = 0

\* no destination store, no replicas, no plain iterator
NoSync ==
    /\ dst = <<>>
    /\ pc = "none"
    /\ seen = {}
    /\ rep = FALSE
    /\ snap = <<>>
    /\ cleaned = {}
    /\ oldCleaned = FALSE
NoReplicas ==
    /\ replicaDst = <<>>
    /\ replicaTodo = <<>>
    /\ replicaMerged = <<>>
NoPlain ==
    /\ plainEntries = <<>>
    /\ plainCurrent = 0
    /\ plainStarted = FALSE
    /\ plainCalls = 0
    /\ plainDst = <<>>

Init ==
    /\ Entries \in EntrySeqs
    /\ DefaultTimestampNano \in TSValues
    /\ NewIterator
    /\ NoSync
    /\ NoReplicas
    /\ NoPlain

\* Advance stepping the cursor on the first call too
AdvanceAlways(cur, st) == cur + 1

\* the cursor after a call of Next
Advance(cur, st) == IF st THEN cur + 1 ELSE cur

\* Next: what the call does to the iterator and what it returns
CallNext ==
    /\ current' = Advance(current, started)
    /\ started' = TRUE
    /\ calls' = calls + 1
    /\ op' = "Next"
    /\ IF Len(Entries) <= current'
       THEN key' = <<>> /\ err' = EOF
       ELSE key' = Entries[current' + 1].Key /\ err' = NoErr
    /\ oldval' = <<>>
    /\ val' = <<>>
    /\ enc' = NoCall
    /\ UNCHANGED <<Entries, DefaultTimestampNano, buf>>

\* Merge and Clean: the call r, made with destination value old
Called(name, old, r) ==
    /\ op' = name
    /\ oldval' = old
    /\ val' = r.val
    /\ err' = r.err
    /\ buf' = r.buf
    /\ enc' = r.enc
    /\ UNCHANGED <<Entries, DefaultTimestampNano, current, started, key, calls>>

TimestampedIterator_Next ==
    /\ current < MaxCurrent
    /\ CallNext
    /\ UNCHANGED <<syncVars, replicaVars, plainVars>>

TimestampedIterator_Merge ==
    /\ started
    /\ current < Len(Entries)
    /\ \E old \in OldVals :
         \E r \in {Merge(Entries, current, DefaultTimestampNano, buf, old)} :
             Called("Merge", old, r)
    /\ UNCHANGED <<syncVars, replicaVars, plainVars>>

TimestampedIterator_Clean ==
    /\ \E old \in OldVals :
         \E r \in {Clean(DefaultTimestampNano, buf, old)} :
             Called("Clean", old, r)
    /\ UNCHANGED <<syncVars, replicaVars, plainVars>>

Next ==
    \/ TimestampedIterator_Next
    \/ TimestampedIterator_Merge
    \/ TimestampedIterator_Clean

Spec == Init /\ [][Next]_vars

---------------------------------------------------------------------------
(* Two replicas merging the same two entries of one key in opposite       *)
(* orders.  A key comes once in an entry sequence, so every entry is       *)
(* merged by a pass of its own: a new iterator, Next, Merge, and the       *)
(* driver's write of the value returned (nothing is written on an error).  *)

\* the driver applying a Merge or Clean result to the stored value
Written(old, r) == IF r.err = NoErr THEN r.val ELSE old

Replicas == {1, 2}

InitReplicas ==
    /\ DefaultTimestampNano \in TSValues
    /\ Entries = <<>>
    /\ NewIterator
    /\ NoSync
    /\ NoPlain
    /\ replicaDst = [r \in Replicas |-> <<>>]
    /\ replicaMerged = [r \in Replicas |-> {}]
    /\ \E a \in Payloads, b \in Payloads, ts \in TSValues :
         replicaTodo = [r \in Replicas |->
                          IF r = 1
                          THEN <<KV(Key1, a, ts), KV(Key1, b, ts)>>
                          ELSE <<KV(Key1, b, ts), KV(Key1, a, ts)>>]

\* one replica's pass over the single entry e
MergeOnReplica(id, e) ==
    /\ LET old == replicaDst[id]
       IN  \E r \in {Merge(<<e>>, 0, DefaultTimestampNano, <<>>, old)} :
             /\ Entries' = <<e>>
             /\ current' = 0
             /\ started' = TRUE
             /\ calls' = 1
             /\ key' = e.Key
             /\ op' = "Merge"
             /\ oldval' = old
             /\ val' = r.val
             /\ err' = r.err
             /\ buf' = r.buf
             /\ enc' = r.enc
             /\ replicaDst' = [replicaDst EXCEPT ![id] = Written(old, r)]
    /\ replicaMerged' = [replicaMerged EXCEPT ![id] = @ \cup {e}]
    /\ UNCHANGED <<DefaultTimestampNano, syncVars, plainVars>>

ReplicaMerge(id) ==
    /\ replicaTodo[id] # <<>>
    /\ MergeOnReplica(id, Head(replicaTodo[id]))
    /\ replicaTodo' = [replicaTodo EXCEPT ![id] = Tail(@)]

NextReplicas == \E id \in Replicas : ReplicaMerge(id)

SpecReplicas == InitReplicas /\ [][NextReplicas]_vars

---------------------------------------------------------------------------
(* Two replicas merging one set of timestamped entries of one key, each    *)
(* entry by a pass of its own and each replica in an order of its own.     *)

\* the entries: every timestamp 1..MaxTS with no payload and with every
\* payload of one byte
OrderPayloads == {<<>>} \cup {<<b>> : b \in ByteVals}
OrderEntries == {KV(Key1, v, U64(n)) : v \in OrderPayloads, n \in 1..MaxTS}
EntrySets == {S \in SUBSET OrderEntries : Cardinality(S) \in 1..MaxWrites}

InitOrders ==
    /\ DefaultTimestampNano \in {U64(n) : n \in 0..MaxTS}
    /\ Entries = <<>>
    /\ NewIterator
    /\ NoSync
    /\ NoPlain
    /\ replicaDst = [r \in Replicas |-> <<>>]
    /\ replicaMerged = [r \in Replicas |-> {}]
    /\ \E S \in EntrySets : replicaTodo = [r \in Replicas |-> S]

\* the replica merges any entry it has not merged yet
OrderMerge(id) ==
    \E e \in replicaTodo[id] :
        /\ MergeOnReplica(id, e)
        /\ replicaTodo' = [replicaTodo EXCEPT ![id] = @ \ {e}]

NextOrders == \E id \in Replicas : OrderMerge(id)

SpecOrders == InitOrders /\ [][NextOrders]_vars

---------------------------------------------------------------------------
(* Merge passes over a destination store.  The merge-join driver walks     *)
(* the store's keys in step with the iterator's: Clean for every stored    *)
(* key the source has no entry for, Merge for every key Next returns, and  *)
(* the value returned is written back.  An error ends the pass.            *)

\* the passes' timestamps are 0 (none) and the small ones: only their order
\* counts here
SyncTS == {U64(n) : n \in 0..MaxTS}
SyncEntrySeqs ==
    {<<>>}
    \cup {<<KV(Key1, v, ts)>> : v \in Payloads, ts \in SyncTS}
    \cup {<<e1, e2>> : e1 \in FirstEntries, e2 \in SecondEntries}

KeyLess(a, b) == Compare(a, b) < 0

\* stored keys the cursor has yet to pass
Pending == {k \in Keys : k \notin seen /\ dst[k] # <<>>}
\* those the source has no entry for: all of them once the source is
\* exhausted, and before that the ones below the key Next returned
Unmatched == IF pc = "drain" THEN Pending
             ELSE {k \in Pending : KeyLess(k, key)}
First(S) == CHOOSE k \in S : \A j \in S : k = j \/ KeyLess(k, j)

\* a new iterator for the next pass, nothing called yet
StartPass ==
    /\ current' = 0
    /\ started' = FALSE
    /\ buf' = <<>>
    /\ op' = "new"
    /\ oldval' = <<>>
    /\ key' = <<>>
    /\ val' = <<>>
    /\ err' = NoErr
    /\ enc' = NoCall
    /\ calls' = 0
    /\ pc' = "next"
    /\ seen' = {}
    /\ snap' = dst
    /\ oldCleaned' = FALSE
    /\ UNCHANGED <<dst, cleaned, replicaVars, plainVars>>

InitSync ==
    /\ Entries \in SyncEntrySeqs
    /\ DefaultTimestampNano \in SyncTS
    /\ NewIterator
    /\ dst = [k \in Keys |-> <<>>]
    /\ pc = "next"
    /\ seen = {}
    /\ rep = FALSE
    /\ snap = dst
    /\ cleaned = {}
    /\ oldCleaned = FALSE
    /\ NoReplicas
    /\ NoPlain

SyncNext ==
    /\ pc = "next"
    /\ CallNext
    /\ pc' = IF err' = EOF THEN "drain" ELSE "join"
    /\ oldCleaned' = FALSE
    /\ UNCHANGED <<dst, seen, rep, snap, cleaned, replicaVars, plainVars>>

SyncClean ==
    /\ pc \in {"join", "drain"}
    /\ Unmatched # {}
    /\ LET k == First(Unmatched)
       IN  \E r \in {Clean(DefaultTimestampNano, buf, dst[k])} :
             /\ Called("Clean", dst[k], r)
             /\ dst' = [dst EXCEPT ![k] = Written(@, r)]
             /\ seen' = seen \cup {k}
             /\ cleaned' = IF r.err = NoErr /\ r.enc # NoCall
                           THEN cleaned \cup {k} ELSE cleaned
             /\ pc' = IF r.err = NoErr THEN pc ELSE "failed"
    /\ oldCleaned' = FALSE
    /\ UNCHANGED <<rep, snap, replicaVars, plainVars>>

SyncMerge ==
    /\ pc = "join"
    /\ Unmatched = {}
    /\ \E r \in {Merge(Entries, current, DefaultTimestampNano, buf, dst[key])} :
         /\ Called("Merge", dst[key], r)
         /\ dst' = [dst EXCEPT ![key] = Written(@, r)]
         /\ cleaned' = IF Written(dst[key], r) = dst[key]
                       THEN cleaned ELSE cleaned \ {key}
         /\ pc' = IF r.err = NoErr THEN "next" ELSE "failed"
    /\ seen' = seen \cup {key}
    /\ oldCleaned' = (key \in cleaned)
    /\ UNCHANGED <<rep, snap, replicaVars, plainVars>>

SyncDone ==
    /\ pc = "drain"
    /\ Unmatched = {}
    /\ pc' = "done"
    /\ UNCHANGED <<itVars, callVars, dst, seen, rep, snap, cleaned,
                   oldCleaned, replicaVars, plainVars>>

\* the next pass: another entry sequence, another default timestamp
NewPass ==
    /\ pc \in {"done", "failed"}
    /\ Entries' \in SyncEntrySeqs
    /\ DefaultTimestampNano' \in SyncTS
    /\ rep' = FALSE
    /\ StartPass

\* the same entries and the same default timestamp once more
RepeatPass ==
    /\ pc = "done"
    /\ UNCHANGED <<Entries, DefaultTimestampNano>>
    /\ rep' = TRUE
    /\ StartPass

NextSync ==
    \/ SyncNext
    \/ SyncClean
    \/ SyncMerge
    \/ SyncDone
    \/ NewPass
    \/ RepeatPass

SpecSync == InitSync /\ [][NextSync]_vars

\* the passes that are given a default timestamp, as they must be
InitSyncStamped == InitSync /\ DefaultTimestampNano # Zero
NewStampedPass == NewPass /\ DefaultTimestampNano' # Zero

NextSyncStamped ==
    \/ SyncNext
    \/ SyncClean
    \/ SyncMerge
    \/ SyncDone
    \/ NewStampedPass

SpecSyncStamped == InitSyncStamped /\ [][NextSyncStamped]_vars

---------------------------------------------------------------------------
(* PlainIterator: the entries of the timestamped store, merged into the    *)
(* store without headers.                                                  *)

PlainRet(v, e) == [val |-> v, err |-> e]

\* PlainMerge leaving a value that is there alone
PlainMergeKeepsOld(entries, cur, old) ==
    PlainRet(IF old = <<>> THEN entries[cur + 1].Value ELSE old, NoErr)

PlainMerge(entries, cur, old) == PlainRet(entries[cur + 1].Value, NoErr)

\* PlainClean keeping the value
PlainCleanKeeps(old) == PlainRet(old, NoErr)

\* "Delete the key"
PlainClean(old) == PlainRet(<<>>, NoErr)

PlainAdvance(cur, st) == IF st THEN cur + 1 ELSE cur

\* Next: what the call does to the iterator and what it returns
PlainCallNext ==
    /\ plainCurrent' = PlainAdvance(plainCurrent, plainStarted)
    /\ plainStarted' = TRUE
    /\ plainCalls' = plainCalls + 1
    /\ op' = "PlainNext"
    /\ IF Len(plainEntries) <= plainCurrent'
       THEN key' = <<>> /\ err' = EOF
       ELSE key' = plainEntries[plainCurrent' + 1].Key /\ err' = NoErr
    /\ oldval' = <<>>
    /\ val' = <<>>
    /\ enc' = NoCall
    /\ UNCHANGED <<plainEntries, itVars, calls, replicaVars>>

\* Merge and Clean: the call r, made with destination value old
PlainCalled(name, old, r) ==
    /\ op' = name
    /\ oldval' = old
    /\ val' = r.val
    /\ err' = r.err
    /\ enc' = NoCall
    /\ UNCHANGED <<key, plainEntries, plainCurrent, plainStarted, plainCalls,
                   itVars, calls, replicaVars>>

\* entry sequences, ascending in their keys, with every payload
PlainEntrySeqs ==
    {<<>>}
    \cup {<<KV(k, v, U64(1))>> : k \in Keys, v \in Payloads}
    \cup {<<KV(Key1, v, U64(1)), KV(Key2, w, U64(1))>> :
             v \in Payloads, w \in Payloads}

\* destination values handed to the plain Merge and Clean: absent, without
\* a header, with one
PlainOldVals == Payloads \cup {PutUint64(BigTS) \o p : p \in Payloads}

PlainIterator_Next ==
    /\ plainCurrent < MaxCurrent
    /\ PlainCallNext
    /\ UNCHANGED <<syncVars, plainDst>>

PlainIterator_Merge ==
    /\ plainStarted
    /\ plainCurrent < Len(plainEntries)
    /\ \E old \in PlainOldVals :
         PlainCalled("PlainMerge", old, PlainMerge(plainEntries, plainCurrent, old))
    /\ UNCHANGED <<syncVars, plainDst>>

PlainIterator_Clean ==
    /\ \E old \in PlainOldVals : PlainCalled("PlainClean", old, PlainClean(old))
    /\ UNCHANGED <<syncVars, plainDst>>

\* the plain iterator called method by method
InitPlain ==
    /\ Entries = <<>>
    /\ DefaultTimestampNano = Zero
    /\ NewIterator
    /\ NoSync
    /\ NoReplicas
    /\ plainEntries \in PlainEntrySeqs
    /\ plainCurrent = 0
    /\ plainStarted = FALSE
    /\ plainCalls = 0
    /\ plainDst = <<>>

NextPlain ==
    \/ PlainIterator_Next
    \/ PlainIterator_Merge
    \/ PlainIterator_Clean

SpecPlain == InitPlain /\ [][NextPlain]_vars

\* both iterators, built over the same entry sequence and advanced side by
\* side
InitIterators ==
    /\ Entries \in PlainEntrySeqs
    /\ DefaultTimestampNano = U64(1)
    /\ NewIterator
    /\ NoSync
    /\ NoReplicas
    /\ plainEntries = Entries
    /\ plainCurrent = 0
    /\ plainStarted = FALSE
    /\ plainCalls = 0
    /\ plainDst = <<>>

NextIterators ==
    \/ TimestampedIterator_Next
    \/ PlainIterator_Next
    \/ PlainIterator_Merge
    \/ PlainIterator_Clean

SpecIterators == InitIterators /\ [][NextIterators]_vars

---------------------------------------------------------------------------
(* A merge pass of the plain iterator over a header-free store.  The       *)
(* driver is the one of the timestamped passes; a value Merge returns is   *)
(* written, and the absent value Clean returns removes the key.            *)

\* the stores: any of the keys present, with any payload
PlainStores == UNION {[K -> Payloads] : K \in SUBSET Keys}

\* the raw value of key k, empty when the key is absent
PlainGet(store, k) == IF k \in DOMAIN store THEN store[k] ELSE <<>>
\* the store with v written under key k
PlainPut(store, k, v) ==
    [j \in DOMAIN store \cup {k} |-> IF j = k THEN v ELSE store[j]]
\* the store without key k
PlainDelete(store, k) == [j \in DOMAIN store \ {k} |-> store[j]]

PlainPending == {k \in DOMAIN plainDst : k \notin seen}
PlainUnmatched == IF pc = "drain" THEN PlainPending
                  ELSE {k \in PlainPending : KeyLess(k, key)}

InitPlainSync ==
    /\ Entries = <<>>
    /\ DefaultTimestampNano = Zero
    /\ NewIterator
    /\ dst = <<>>
    /\ pc = "next"
    /\ seen = {}
    /\ rep = FALSE
    /\ snap = <<>>
    /\ cleaned = {}
    /\ oldCleaned = FALSE
    /\ NoReplicas
    /\ plainEntries \in PlainEntrySeqs
    /\ plainCurrent = 0
    /\ plainStarted = FALSE
    /\ plainCalls = 0
    /\ plainDst \in PlainStores

PlainSyncNext ==
    /\ pc = "next"
    /\ PlainCallNext
    /\ pc' = IF err' = EOF THEN "drain" ELSE "join"
    /\ UNCHANGED <<dst, seen, rep, snap, cleaned, oldCleaned, plainDst>>

PlainSyncClean ==
    /\ pc \in {"join", "drain"}
    /\ PlainUnmatched # {}
    /\ LET k == First(PlainUnmatched)
       IN  \E r \in {PlainClean(plainDst[k])} :
             /\ PlainCalled("PlainClean", plainDst[k], r)
             /\ plainDst' = IF r.err # NoErr THEN plainDst
                            ELSE IF r.val = <<>> THEN PlainDelete(plainDst, k)
                            ELSE PlainPut(plainDst, k, r.val)
             /\ seen' = seen \cup {k}
             /\ pc' = IF r.err = NoErr THEN pc ELSE "failed"
    /\ UNCHANGED <<dst, rep, snap, cleaned, oldCleaned>>

PlainSyncMerge ==
    /\ pc = "join"
    /\ PlainUnmatched = {}
    /\ LET old == PlainGet(plainDst, key)
       IN  \E r \in {PlainMerge(plainEntries, plainCurrent, old)} :
             /\ PlainCalled("PlainMerge", old, r)
             /\ plainDst' = IF r.err # NoErr THEN plainDst
                            ELSE PlainPut(plainDst, key, r.val)
             /\ pc' = IF r.err = NoErr THEN "next" ELSE "failed"
    /\ seen' = seen \cup {key}
    /\ UNCHANGED <<dst, rep, snap, cleaned, oldCleaned>>

PlainSyncDone ==
    /\ pc = "drain"
    /\ PlainUnmatched = {}
    /\ pc' = "done"
    /\ UNCHANGED <<itVars, callVars, dst, seen, rep, snap, cleaned,
                   oldCleaned, replicaVars, plainVars>>

NextPlainSync ==
    \/ PlainSyncNext
    \/ PlainSyncClean
    \/ PlainSyncMerge
    \/ PlainSyncDone

SpecPlainSync == InitPlainSync /\ [][NextPlainSync]_vars

---------------------------------------------------------------------------
(* Properties of single calls, checked under Spec.                         *)

\* the entry Merge has just decided on
CurEntry == Entries[current + 1]
\* the timestamp it is merged with: its own, or the default when it has none
EffectiveTS == IF CurEntry.TimestampNano = Zero
               THEN DefaultTimestampNano
               ELSE CurEntry.TimestampNano
MergedStored == op = "Merge" /\ Len(oldval) >= HeaderSize
Unchanged == val = oldval /\ err = NoErr
\* v is the 8 bytes of ts, most significant first, followed by payload p
Encodes(v, ts, p) ==
    /\ Len(v) = HeaderSize + Len(p)
    /\ \A i \in 1..Len(v) : v[i] \in 0..255
    /\ \A j \in 1..4 : v[2 * j - 1] * 256 + v[2 * j] = ts[j]
    /\ \A i \in 1..Len(p) : v[HeaderSize + i] = p[i]

\* C2 as stated: a stored value whose header timestamp is greater than the
\* entry's timestamp field is returned unchanged by Merge.
C2_EntryTimestampDominated ==
    (MergedStored /\ Less(CurEntry.TimestampNano, OldTS(oldval))) => Unchanged

\* C2 (amended): a stored value of at least 8 bytes whose header timestamp
\* is strictly greater than the entry's effective timestamp (its own, or the
\* default timestamp when its own is zero) is returned unchanged by Merge.
C2_EffectiveTimestampDominated ==
    (MergedStored /\ Less(EffectiveTS, OldTS(oldval))) => Unchanged

C2_Witness ==
    /\ MergedStored
    /\ CurEntry.TimestampNano # Zero
    /\ Less(CurEntry.TimestampNano, OldTS(oldval))
    /\ ActualOldVal(oldval) # CurEntry.Value
    /\ Unchanged

\* C5 as stated: on equal timestamps Merge keeps the stored value when the
\* incoming payload is smaller and writes the incoming one when it is greater.
C5_ScenarioTieBreak ==
    (MergedStored /\ CurEntry.TimestampNano = OldTS(oldval)) =>
        /\ Compare(CurEntry.Value, ActualOldVal(oldval)) < 0 => Unchanged
        /\ Compare(CurEntry.Value, ActualOldVal(oldval)) > 0 =>
               err = NoErr /\ Encodes(val, CurEntry.TimestampNano, CurEntry.Value)

\* C5 (amended): when the entry's timestamp equals the stored header
\* timestamp, Merge writes header(ts) + incoming payload if the incoming
\* payload is lexicographically smaller than the stored payload, and keeps
\* the stored value if the incoming payload is greater.
C5_SmallerIncomingWins ==
    (MergedStored /\ CurEntry.TimestampNano = OldTS(oldval)) =>
        /\ Compare(CurEntry.Value, ActualOldVal(oldval)) < 0 =>
               err = NoErr /\ Encodes(val, CurEntry.TimestampNano, CurEntry.Value)
        /\ Compare(CurEntry.Value, ActualOldVal(oldval)) > 0 => Unchanged

C5_Witness ==
    /\ MergedStored
    /\ CurEntry.TimestampNano = OldTS(oldval)
    /\ Compare(CurEntry.Value, ActualOldVal(oldval)) < 0
    /\ CurEntry.Value # <<>>
    /\ val # oldval

\* the lexicographically smaller of two payloads
MinPayload(p, q) == IF Compare(p, q) <= 0 THEN p ELSE q

\* C6: when the effective incoming timestamp equals the stored header
\* timestamp, Merge returns the stored value unchanged exactly when the
\* stored payload is <= the incoming payload, and the value it returns
\* carries that timestamp and the smaller of the two payloads.
C6_TieKeepsSmaller ==
    (MergedStored /\ EffectiveTS = OldTS(oldval)) =>
        /\ Unchanged <=> Compare(ActualOldVal(oldval), CurEntry.Value) <= 0
        /\ err = NoErr
        /\ Encodes(val, OldTS(oldval),
                   MinPayload(ActualOldVal(oldval), CurEntry.Value))

C6_Witness ==
    /\ MergedStored
    /\ EffectiveTS = OldTS(oldval)
    /\ Compare(ActualOldVal(oldval), CurEntry.Value) > 0
    /\ val = PutUint64(EffectiveTS) \o CurEntry.Value

BothZero == CurEntry.TimestampNano = Zero /\ DefaultTimestampNano = Zero

C8_RoundTripAnyTimestamp ==
    enc # NoCall =>
        /\ err = NoErr
        /\ Len(val) >= HeaderSize
        /\ OldTS(val) = enc[2]
        /\ ActualOldVal(val) = enc[1]

\* C8 (amended): for every payload and every nonzero timestamp, the maximum
\* included, the value addTS returns decodes to (ts, payload); for ts = 0
\* addTS encodes the default timestamp instead, so the value decodes to
\* (default, payload), and the call fails with ErrNoTimestamp when the
\* default is zero too.
C8_RoundTripNonzero ==
    enc # NoCall =>
        LET ts == IF enc[2] = Zero THEN DefaultTimestampNano ELSE enc[2]
        IN  IF ts = Zero
            THEN err = ErrNoTimestamp /\ val = <<>>
            ELSE /\ err = NoErr
                 /\ Len(val) >= HeaderSize
                 /\ OldTS(val) = ts
                 /\ ActualOldVal(val) = enc[1]

C8_Witness ==
    enc # NoCall /\ enc[2] = MaxUint64 /\ enc[1] = <<>> /\ err = NoErr
        /\ OldTS(val) = MaxUint64

\* C9: for an absent destination value Merge returns the big-endian header
\* of the effective timestamp followed by the entry's payload, and fails
\* with ErrNoTimestamp when the entry's timestamp and the default are zero.
C9_NewKey ==
    (op = "Merge" /\ oldval = <<>>) =>
        IF EffectiveTS = Zero
        THEN err = ErrNoTimestamp /\ val = <<>>
        ELSE err = NoErr /\ Encodes(val, EffectiveTS, CurEntry.Value)

C9_Witness ==
    /\ op = "Merge" /\ oldval = <<>>
    /\ CurEntry.TimestampNano = Zero
    /\ DefaultTimestampNano = BigTS
    /\ CurEntry.Value # <<>>
    /\ val = <<1, 2, 3, 4, 5, 6, 7, 8>> \o CurEntry.Value

\* C10: a destination value of 1 to 7 bytes makes Merge fail with the
\* corrupt-value error and return no value, whatever the entry and the
\* default timestamp are.
C10_CorruptOldval ==
    (op = "Merge" /\ Len(oldval) \in 1..(HeaderSize - 1)) =>
        (err = ErrTooShort /\ val = <<>>)

C10_Witness ==
    /\ op = "Merge" /\ Len(oldval) = HeaderSize - 1
    /\ err = ErrTooShort
    /\ CurEntry.TimestampNano # Zero

\* C11: Clean returns a destination value of exactly 8 bytes unchanged, with
\* the timestamp it has, whatever the default timestamp is (zero included);
\* for any other destination value it returns the bare 8-byte header of the
\* default timestamp, and fails with ErrNoTimestamp when the default is zero.
C11_CleanTombstone ==
    op = "Clean" =>
        IF Len(oldval) = HeaderSize
        THEN Unchanged
        ELSE IF DefaultTimestampNano = Zero
        THEN err = ErrNoTimestamp /\ val = <<>>
        ELSE err = NoErr /\ Encodes(val, DefaultTimestampNano, <<>>)

C11_Witness ==
    /\ op = "Clean"
    /\ Len(oldval) = HeaderSize
    /\ OldTS(oldval) = BigTS
    /\ DefaultTimestampNano = Zero
    /\ val = oldval /\ err = NoErr

\* C15: when the entry's timestamp is zero and the stored payload is
\* byte-equal to the entry's payload, Merge returns the stored value
\* unchanged and without error, whatever the default timestamp is.
C15_NoTimestampBump ==
    (/\ MergedStored
     /\ CurEntry.TimestampNano = Zero
     /\ Equal(ActualOldVal(oldval), CurEntry.Value)) => Unchanged

C15_Witness ==
    /\ MergedStored
    /\ CurEntry.TimestampNano = Zero
    /\ ActualOldVal(oldval) = CurEntry.Value
    /\ CurEntry.Value # <<>>
    /\ Less(OldTS(oldval), DefaultTimestampNano)
    /\ val = oldval /\ err = NoErr

\* C18: a destination value of 1 to 7 bytes makes Clean fail with the
\* corrupt-value error and return no value (stated for the passes that have
\* a default timestamp, where no other error stands in its way).
C18_CleanCorruptOldval ==
    (/\ op = "Clean"
     /\ Len(oldval) \in 1..(HeaderSize - 1)
     /\ DefaultTimestampNano # Zero) =>
        (err = ErrTooShort /\ val = <<>>)

---------------------------------------------------------------------------
(* Two replicas, checked under SpecReplicas.                               *)

ReplicasDone == \A id \in Replicas : replicaTodo[id] = <<>>

\* C1: two payloads with the same timestamp, merged in the one order into
\* an empty destination and in the other order into another, leave both
\* destinations with the same value.
C1_TieBreakCommutes ==
    ReplicasDone => replicaDst[1] = replicaDst[2]

C1_Witness ==
    /\ ReplicasDone
    /\ op = "Merge" /\ Len(oldval) >= HeaderSize
    /\ Compare(ActualOldVal(oldval), CurEntry.Value) < 0
    /\ CurEntry.TimestampNano # Zero
    /\ replicaDst[1] = oldval
    /\ replicaDst[2] = oldval

---------------------------------------------------------------------------
(* Merge passes, checked under SpecSync.                                   *)

\* Clean has just turned a value with a payload into a tombstone
CleanedValue == op = "Clean" /\ Len(oldval) > HeaderSize /\ err = NoErr
\* Merge has just decided on a key whose tombstone Clean had written
MergedTombstone == op = "Merge" /\ oldCleaned

\* C3 as stated: Clean leaves a tombstone dated at the default timestamp; a
\* later Merge with an entry whose timestamp field is earlier than the
\* tombstone's leaves it in place, and one with an entry whose timestamp is
\* later replaces it with header(entry timestamp) + payload.
C3_EntryTimestampVsTombstone ==
    /\ CleanedValue => Encodes(val, DefaultTimestampNano, <<>>)
    /\ MergedTombstone =>
        /\ Len(oldval) = HeaderSize
        /\ Less(CurEntry.TimestampNano, OldTS(oldval)) =>
               Unchanged /\ dst[key] = oldval
        /\ Less(OldTS(oldval), CurEntry.TimestampNano) =>
               /\ err = NoErr
               /\ Encodes(val, CurEntry.TimestampNano, CurEntry.Value)
               /\ dst[key] = val

\* C3 (amended): Clean leaves a tombstone dated at the default timestamp; a
\* later Merge with an entry whose effective timestamp (its own, or that
\* pass's default when its own is zero) is earlier than the tombstone's
\* leaves the tombstone in place, and one with an entry whose own timestamp
\* is later replaces it with header(entry timestamp) + payload.
C3_EffectiveTimestampVsTombstone ==
    /\ CleanedValue => Encodes(val, DefaultTimestampNano, <<>>)
    /\ MergedTombstone =>
        /\ Len(oldval) = HeaderSize
        /\ Less(EffectiveTS, OldTS(oldval)) =>
               Unchanged /\ dst[key] = oldval
        /\ Less(OldTS(oldval), CurEntry.TimestampNano) =>
               /\ err = NoErr
               /\ Encodes(val, CurEntry.TimestampNano, CurEntry.Value)
               /\ dst[key] = val

C3_Witness ==
    /\ MergedTombstone
    /\ CurEntry.TimestampNano # Zero
    /\ CurEntry.Value # <<>>
    /\ Less(CurEntry.TimestampNano, OldTS(oldval))
    /\ dst[key] = oldval

\* C4: a complete pass with a nonzero default timestamp, run again with the
\* same entries and the same default timestamp, does not fail and leaves
\* the destination as the first run left it.
C4_PassIdempotent ==
    (rep /\ DefaultTimestampNano # Zero) =>
        /\ pc # "failed"
        /\ dst = snap

C4_Witness ==
    /\ rep /\ pc = "done" /\ DefaultTimestampNano # Zero
    /\ Len(Entries) = 1
    /\ Len(dst[Key1]) > HeaderSize
    /\ Key2 \in cleaned
    /\ dst = snap

\* a Merge or Clean call that returned a value for writing
Decided == op \in {"Merge", "Clean"} /\ err = NoErr

\* C17: starting from a store whose values are absent or at least 8 bytes
\* long, every value stored after any sequence of Merge and Clean calls
\* written back is at least 8 bytes long, and no successful call returns an
\* empty value or one of 1 to 7 bytes.
C17_StoredWellFormed ==
    /\ \A k \in Keys : dst[k] = <<>> \/ Len(dst[k]) >= HeaderSize
    /\ Decided => Len(val) >= HeaderSize

C17_Witness ==
    /\ op = "Clean" /\ err = NoErr
    /\ Len(oldval) > HeaderSize
    /\ Len(val) = HeaderSize
    /\ \E k \in Keys : dst[k] = val
    /\ \E k \in Keys : Len(dst[k]) > HeaderSize

\* C20: every value Merge or Clean newly produces (a result that is not the
\* destination value handed in) has a nonzero header timestamp, and no
\* value stored after any sequence of calls has header timestamp 0.
C20_NoZeroTimestamp ==
    /\ \A k \in Keys : dst[k] # <<>> =>
           Len(dst[k]) >= HeaderSize /\ OldTS(dst[k]) # Zero
    /\ (Decided /\ val # oldval) =>
           Len(val) >= HeaderSize /\ OldTS(val) # Zero

C20_Witness ==
    /\ op = "Merge" /\ err = NoErr
    /\ CurEntry.TimestampNano = Zero
    /\ Len(oldval) > HeaderSize
    /\ val # oldval
    /\ OldTS(val) = DefaultTimestampNano
    /\ dst[key] = val

---------------------------------------------------------------------------
(* Merge passes with a default timestamp, checked under SpecSyncStamped.   *)

\* C19: the header timestamp stored for a key never decreases: no Merge or
\* Clean result written over a stored value carries an earlier timestamp
\* than the value it replaces.
C19_TimestampNeverDecreases ==
    (Decided /\ Len(oldval) >= HeaderSize) =>
        /\ Len(val) >= HeaderSize
        /\ ~Less(OldTS(val), OldTS(oldval))

---------------------------------------------------------------------------
(* Orders of arrival, checked under SpecOrders.                            *)

\* the entry with the greatest timestamp, the smallest payload among those
Winner(S) ==
    CHOOSE e \in S : \A f \in S :
        \/ Less(f.TimestampNano, e.TimestampNano)
        \/ /\ f.TimestampNano = e.TimestampNano
           /\ Compare(e.Value, f.Value) <= 0

\* C16: entries of one key with nonzero timestamps, merged one by one into
\* an empty destination, leave the same value whatever the order: the
\* encoding of the entry with the greatest timestamp, the smaller payload
\* winning among equal timestamps.
C16_OrderIndependent ==
    \A id \in Replicas :
        replicaTodo[id] = {} =>
            LET w == Winner(replicaMerged[id])
            IN  /\ Encodes(replicaDst[id], w.TimestampNano, w.Value)
                /\ \A other \in Replicas :
                       replicaTodo[other] = {} => replicaDst[other] = replicaDst[id]

C16_Witness ==
    /\ \A id \in Replicas : replicaTodo[id] = {}
    /\ Cardinality(replicaMerged[1]) = MaxWrites
    /\ \E e, f \in replicaMerged[1] :
          /\ e # f
          /\ e.TimestampNano = f.TimestampNano
          /\ Less(U64(1), e.TimestampNano)
          /\ Compare(e.Value, f.Value) < 0
          /\ replicaDst[1] = PutUint64(e.TimestampNano) \o e.Value
    /\ replicaDst[2] = replicaDst[1]
    /\ op = "Merge" /\ val = oldval

---------------------------------------------------------------------------
(* The plain iterator, checked under SpecIterators, SpecPlain and          *)
(* SpecPlainSync.                                                          *)

\* what the n-th call of Next on an iterator over entries returns
NthNext(entries, n) ==
    IF n <= Len(entries)
    THEN err = NoErr /\ key = entries[n].Key
    ELSE err = EOF /\ key = <<>>

\* C12: on either iterator the i-th call of Next returns the key of the
\* i-th entry, for i up to the number n of entries, and the (n+1)-th call
\* and every later one return io.EOF and no key, also when n = 0.
C12_NextVisitsInOrder ==
    /\ op = "Next" => calls >= 1 /\ NthNext(Entries, calls)
    /\ op = "PlainNext" => plainCalls >= 1 /\ NthNext(plainEntries, plainCalls)

C12_Witness ==
    /\ Len(Entries) = 2
    /\ calls = 2
    /\ op = "PlainNext"
    /\ plainCalls = Len(plainEntries) + 2
    /\ err = EOF

\* C13: the plain Merge returns, without error, the value of the entry
\* whose key the last Next returned, whatever the destination value is.
C13_PlainMergeIgnoresOldval ==
    op = "PlainMerge" =>
        /\ err = NoErr
        /\ plainCalls \in 1..Len(plainEntries)
        /\ plainEntries[plainCalls].Key = key
        /\ val = plainEntries[plainCalls].Value

C13_Witness ==
    /\ op = "PlainMerge"
    /\ Len(oldval) > HeaderSize
    /\ plainCalls = 2
    /\ key = Key2
    /\ val = plainEntries[2].Value
    /\ val # plainEntries[1].Value
    /\ val # oldval

\* the keys of the plain entry sequence
PlainKeys == {plainEntries[i].Key : i \in 1..Len(plainEntries)}

\* C14: a completed pass of the plain iterator leaves the destination with
\* exactly the keys of the entry sequence, each with its entry's value;
\* the plain Clean returns absent and no error, so every other key is gone.
C14_PlainPassMirrors ==
    /\ op = "PlainClean" => val = <<>> /\ err = NoErr
    /\ pc # "failed"
    /\ pc = "done" =>
          /\ DOMAIN plainDst = PlainKeys
          /\ \A i \in 1..Len(plainEntries) :
                 plainDst[plainEntries[i].Key] = plainEntries[i].Value

C14_Witness ==
    /\ pc = "done"
    /\ Len(plainEntries) = 1
    /\ plainEntries[1].Key = Key2
    /\ Key1 \in seen
    /\ DOMAIN plainDst = {Key2}
    /\ plainDst[Key2] # <<>>

===========================================================================
